---- MODULE Spec2Model ----
(***************************************************************************)
(* Model of the asynchronous media-analysis pipeline of the server         *)
(* (processVideoFull and the HTTP handlers around the in-memory job        *)
(* registry), of callOpenAIWithRetry and of filterSignificantFrames.       *)
(*                                                                         *)
(* Node runs one callback at a time: every action below is the code that   *)
(* runs between two suspension points (an await on real I/O or a timer).   *)
(* Continuations that run in the microtask queue right after a callback    *)
(* (an await on an already settled promise, the resumption after           *)
(* Promise.all) belong to the same action as that callback.                *)
(***************************************************************************)
EXTENDS Integers, Sequences, FiniteSets, TLC

\* ------------------------------------------------------------------------
\* Bounds of the model
\* ------------------------------------------------------------------------
MaxFrames == 31
MaxFailedRequests == 1
MaxFilterFrames == 4
MaxObservations == 2

\* ------------------------------------------------------------------------
\* Program constants
\* ------------------------------------------------------------------------
IMAGES_PER_REQUEST == 3
BATCH_SIZE == 10
SIGNIFICANT_THRESHOLD_PCT == 8
RESIZE_BYTES == 12288

Null == "null"
JobId == "job-1"

\* ------------------------------------------------------------------------
\* JavaScript numbers that need not be integers: progress is kept as an
\* exact fraction in lowest terms.
\* ------------------------------------------------------------------------
RECURSIVE GCD(_, _)
GCD(a, b) == IF b = 0 THEN a ELSE GCD(b, a % b)

Num(n, d) == LET g == GCD(n, d) IN [num |-> n \div g, den |-> d \div g]

Whole(n) == [num |-> n, den |-> 1]

NumGeq(a, b) == a.num * b.den >= b.num * a.den

Min(a, b) == IF a <= b THEN a ELSE b

\* ------------------------------------------------------------------------
\* State
\* ------------------------------------------------------------------------
VARIABLES
    analysisJobs,      \* global.analysisJobs: job id -> job record
    pc,                \* the await processVideoFull is suspended at
    rawUtterances,     \* the raw speaker id of every utterance, line 1190
    video,             \* gray level of every extracted frame file (frame k at index k)
    frameFiles,        \* significant frames (frame numbers), line 1263
    batchIndex,        \* index of the wave in progress, line 1287
    reqState,          \* state of every request (image group) of the wave in progress
    overshootResults,  \* the local array of line 1223
    mediapipe,         \* state of mediapipePromise, line 1217
    httpInFlight,      \* fetches of callRunPodVision issued and not yet returned
    visionCalls,       \* number of calls of callRunPodVision so far
    droppedRequests,   \* number of requests whose catch returned [] (line 1341)
    failures,          \* external steps that have failed so far
    polled,            \* the latest response of GET /api/analysis-status
    jobFiles,          \* files of the job on disk: video, audio, frames (directory)
    analysisCache,     \* keys of the rows of the table analysis_cache
    clientPc,          \* position of the client's startProcessing
    isProcessing,      \* store field
    currentView,       \* store field
    processingStage,   \* store field
    pollInterval,      \* TRUE while the setInterval of appStore.js:126 is active
    safetyTimer,       \* the setTimeout of appStore.js:191
    maxRetries,        \* callOpenAIWithRetry: the parameter
    attempt,           \* callOpenAIWithRetry: the loop variable
    retryPc,           \* callOpenAIWithRetry: calling, waiting, returned or thrown
    apiCalls,          \* number of invocations of apiCall
    retries,           \* one record per wait of line 1131, in order
    apiOutcome,        \* the latest apiCall: pending, resolved or rejected
    filterInput,       \* filterSignificantFrames: gray level of every frame file
    filterThreshold,   \* filterSignificantFrames: threshold, in hundredths
    filterPc,          \* filterSignificantFrames: called or returned
    filterResult,      \* filterSignificantFrames: the returned list
    fusionTranscript,  \* extractEventsFromAnalysis: transcript
    fusionObservations, \* extractEventsFromAnalysis: overshootResults
    fusionRuns,        \* what every run of extractEventsFromAnalysis returned
    scoreClientValid,  \* generateSessionData: openaiClient is a usable client
    audioOutcome,      \* what the call of classifyAudioSections does
    scoreOutcomes,     \* what the structured-evaluation call of every domain does
    scoreInputs,       \* what the fallback heuristics count in the inputs
    domainEvals,       \* the evaluation every evaluator returned
    sessionReport,     \* the value generateSessionData returned
    scoringPc,         \* generateSessionData: classifying, evaluating, returned or thrown
    sessions,          \* the rows of the table sessions
    clock,             \* CURRENT_TIMESTAMP of the database
    sessionLog,        \* the calls of saveSession, getSession and deleteSession so far
    runs               \* the processing runs of one browser page, in order of start

jobVars == <<analysisJobs, pc, rawUtterances, video, frameFiles, batchIndex, reqState, overshootResults,
             mediapipe, httpInFlight, visionCalls, droppedRequests, failures, polled,
             jobFiles, analysisCache>>

clientVars == <<clientPc, isProcessing, currentView, processingStage, pollInterval,
                safetyTimer>>

retryVars == <<maxRetries, attempt, retryPc, apiCalls, retries, apiOutcome>>

filterVars == <<filterInput, filterThreshold, filterPc, filterResult>>

fusionVars == <<fusionTranscript, fusionObservations, fusionRuns>>

scoringVars == <<scoreClientValid, audioOutcome, scoreOutcomes, scoreInputs, domainEvals,
                 sessionReport, scoringPc>>

sessionVars == <<sessions, clock, sessionLog>>

vars == <<jobVars, clientVars, retryVars, filterVars, fusionVars, scoringVars, sessionVars, runs>>

\* ------------------------------------------------------------------------
\* calculateFrameDifference and filterSignificantFrames
\* ------------------------------------------------------------------------
\* A frame file sharp cannot read (any value outside the gray levels 0..255).
Corrupt == 256

Abs(x) == IF x < 0 THEN -x ELSE x

\* Frames are modelled as uniformly gray images: after resize(64, 64).raw()
\* the buffer holds RESIZE_BYTES equal bytes, so the sum of the absolute
\* byte differences is RESIZE_BYTES * |g1 - g2|. An unreadable frame makes
\* sharp throw; the catch returns 1.0. The result is the pair
\* <<totalDiff, img1.length * 255>>, i.e. the fraction normalizedDiff.
calculateFrameDifference(g1, g2) ==
    IF g1 = Corrupt \/ g2 = Corrupt
    THEN <<1, 1>>
    ELSE <<RESIZE_BYTES * Abs(g1 - g2), RESIZE_BYTES * 255>>

\* A comparison that also keeps a frame whose score equals the threshold.
ReachesThreshold(diff, thresholdPct) ==
    diff[1] * 100 >= thresholdPct * diff[2]

\* diff > threshold, the threshold given in hundredths (8 is 0.08).
ExceedsThreshold(diff, thresholdPct) ==
    diff[1] * 100 > thresholdPct * diff[2]

\* A loop that compares each frame with the frame just before it in the
\* input instead of the last retained one.
RECURSIVE FilterFromPreviousFrame(_, _, _, _, _, _)
FilterFromPreviousFrame(files, pix, thresholdPct, i, significantFrames, lastSignificantFrame) ==
    IF i > Len(files)
    THEN significantFrames
    ELSE LET diff == calculateFrameDifference(pix[files[i - 1]], pix[files[i]])
         IN FilterFromPreviousFrame(files, pix, thresholdPct, i + 1,
                IF ExceedsThreshold(diff, thresholdPct)
                THEN Append(significantFrames, files[i])
                ELSE significantFrames,
                files[i])

RECURSIVE FilterFrom(_, _, _, _, _, _)
FilterFrom(files, pix, thresholdPct, i, significantFrames, lastSignificantFrame) ==
    IF i > Len(files)
    THEN significantFrames
    ELSE LET diff == calculateFrameDifference(pix[lastSignificantFrame], pix[files[i]])
         IN IF ExceedsThreshold(diff, thresholdPct)
            THEN FilterFrom(files, pix, thresholdPct, i + 1,
                            Append(significantFrames, files[i]), files[i])
            ELSE FilterFrom(files, pix, thresholdPct, i + 1,
                            significantFrames, lastSignificantFrame)

\* A filter that starts from an empty list instead of [frameFiles[0]].
filterWithoutFirstFrame(files, pix, thresholdPct) ==
    IF Len(files) = 0
    THEN <<>>
    ELSE FilterFrom(files, pix, thresholdPct, 2, <<>>, files[1])

filterSignificantFrames(files, pix, thresholdPct) ==
    IF Len(files) = 0
    THEN <<>>
    ELSE FilterFrom(files, pix, thresholdPct, 2, <<files[1]>>, files[1])

\* ------------------------------------------------------------------------
\* Inputs of a job
\* ------------------------------------------------------------------------
\* Extracted videos: all frames alike ("static") or every frame unlike the
\* one before ("cuts"), of a few lengths up to MaxFrames.
VideoLengths == {0, 1, 4, 12, MaxFrames}

StaticVideo(n) == [k \in 1..n |-> 0]

CutsVideo(n) == [k \in 1..n |-> IF k % 2 = 1 THEN 0 ELSE 255]

Videos == {StaticVideo(n) : n \in VideoLengths} \cup {CutsVideo(n) : n \in VideoLengths}

\* Raw diarized transcripts: the speaker id of every utterance.
RawTranscripts == {<<1, 1>>, <<1, 0>>}

\* Bodies of POST /api/overshoot-results/:jobId.
ClientResults == {<<[frameNumber |-> 1, timeInVideo |-> 1]>>}

\* ------------------------------------------------------------------------
\* classifySpeakers
\* ------------------------------------------------------------------------
SpeakerIds(utterances) == {utterances[i] : i \in DOMAIN utterances}

\* The catch of classifySpeakers: speaker 0 is the clinician.
ClassifyFallback(utterances) ==
    [i \in DOMAIN utterances |-> IF utterances[i] = 0 THEN "Clinician" ELSE "Patient"]

\* The relabelling after a classification that names the clinician.
ClassifyMapped(utterances, clinician, patient) ==
    [i \in DOMAIN utterances |->
        IF utterances[i] = patient THEN "Patient"
        ELSE IF utterances[i] = clinician THEN "Clinician"
        ELSE <<"Speaker", utterances[i]>>]

\* A single-speaker relabelling by the raw speaker id.
ClassifyLocalById(utterances) ==
    [i \in DOMAIN utterances |-> IF utterances[i] = 0 THEN "Clinician" ELSE "Patient"]

\* classifySpeakers returns without calling the service for an empty
\* transcript or a single speaker.
NeedsClassification(utterances) == Cardinality(SpeakerIds(utterances)) > 1

ClassifyLocal(utterances) == [i \in DOMAIN utterances |-> "Clinician"]

\* ------------------------------------------------------------------------
\* The job record and the handlers of the registry
\* ------------------------------------------------------------------------
NewJob ==
    [status |-> "processing", stage |-> "audio_extraction", progress |-> Whole(0),
     overshootResults |-> <<>>, transcriptResults |-> Null, finalResults |-> Null,
     error |-> Null]

\* The response of GET /api/analysis-status/:jobId for an existing job.
AnalysisStatus(j) ==
    [status |-> j.status, stage |-> j.stage, progress |-> j.progress,
     isComplete |-> (j.status = "complete"),
     resultsCount |-> Len(j.overshootResults),
     finalResults |-> j.finalResults, error |-> j.error]

\* A catch that records the status and loses the message.
ProcessingErrorWithoutMessage(j, message) == [j EXCEPT !.status = "error"]

\* The catch of processVideoFull (and the .catch of its caller, which
\* assigns the same two fields again).
\* A catch that also puts the stage back to the first one.
ProcessingErrorResettingStage(j, message) ==
    [j EXCEPT !.status = "error", !.error = message, !.stage = "audio_extraction"]

\* A catch that also clears the partial results and the progress.
ProcessingErrorClearingResults(j, message) ==
    [j EXCEPT !.status = "error", !.error = message,
              !.overshootResults = <<>>, !.progress = Whole(0)]

ProcessingError(j, message) == [j EXCEPT !.status = "error", !.error = message]

HasJob == JobId \in DOMAIN analysisJobs

job == analysisJobs[JobId]

SetJob(j) == analysisJobs' = (JobId :> j)

\* No response received yet.
NoPoll ==
    [status |-> "none", stage |-> "none", progress |-> Whole(0), isComplete |-> FALSE,
     resultsCount |-> 0, finalResults |-> Null, error |-> Null]

\* ------------------------------------------------------------------------
\* Image groups and waves
\* ------------------------------------------------------------------------
CeilDiv(a, b) == (a + b - 1) \div b

NumGroups(frames) == CeilDiv(Len(frames), IMAGES_PER_REQUEST)

NumBatches(frames) == CeilDiv(NumGroups(frames), BATCH_SIZE)

\* imageGroups[g], g = 1, 2, ...: frameFiles.slice(i, i + IMAGES_PER_REQUEST)
ImageGroup(frames, g) ==
    SubSeq(frames, (g - 1) * IMAGES_PER_REQUEST + 1,
           Min(g * IMAGES_PER_REQUEST, Len(frames)))

\* The groups of batches[b], b = 0, 1, ...
BatchGroups(frames, b) ==
    (b * BATCH_SIZE + 1) .. Min((b + 1) * BATCH_SIZE, NumGroups(frames))

RECURSIVE SumOver(_, _)
SumOver(S, f) ==
    IF S = {} THEN 0
    ELSE LET x == CHOOSE y \in S : TRUE IN f[x] + SumOver(S \ {x}, f)

\* callRunPodVision posts one fetch per image of the group, all at once.
FetchesOf(frames, groups) ==
    SumOver(groups, [g \in groups |-> Len(ImageGroup(frames, g))])

\* Line 1233: the fixed sampling rate, 0.5 frames per second.
samplingFps == Num(1, 2)

\* One result per frame of the group (lines 1331-1337); timeInVideo is the
\* frame number (line 1299).
GroupResults(frames, g) ==
    LET grp == ImageGroup(frames, g)
    IN [i \in DOMAIN grp |-> [frameNumber |-> grp[i], timeInVideo |-> grp[i]]]

\* batchResults.flat(): the results of the successful requests, in request order.
RECURSIVE FlatResults(_, _, _, _)
FlatResults(frames, states, g, last) ==
    IF g > last THEN <<>>
    ELSE (IF states[g] = "ok" THEN GroupResults(frames, g) ELSE <<>>)
         \o FlatResults(frames, states, g + 1, last)

\* job.progress after a wave (line 1357).
WaveProgress(results, frames) ==
    LET ratio30 == Num(Len(results) * 30, Len(frames))
        capped == IF NumGeq(ratio30, Whole(30)) THEN Whole(30) ELSE ratio30
    IN Num(50 * capped.den + capped.num, capped.den)

\* ------------------------------------------------------------------------
\* processVideoFull
\* ------------------------------------------------------------------------
AssignToConst == "Assignment to constant variable."

FatalAwaits == {"audio_extraction", "transcription", "duration", "frame_extraction"}

FatalMessage(at) ==
    CASE at = "audio_extraction" -> "ffmpeg exited with code 1"
      [] at = "transcription" -> "Deepgram error"
      [] at = "duration" -> "ffprobe exited with code 1"
      [] at = "frame_extraction" -> "ffmpeg exited with code 1"

AllFrameFiles(v) == [k \in 1..Len(v) |-> k]

\* Lines 1204-1253 up to the await of getVideoDuration; the frames directory
\* is created at line 1227.
BeginVideoAnalysis(classified) ==
    /\ SetJob([job EXCEPT !.transcriptResults = [utterances |-> classified],
                           !.stage = "video_analysis",
                           !.progress = Whole(50)])
    /\ mediapipe' = "running"
    /\ overshootResults' = <<>>
    /\ jobFiles' = jobFiles \cup {"frames"}
    /\ pc' = "duration"

\* Line 1367: the value of parseVisionOutputsWithOpenAI is assigned to the
\* const of line 1223, which throws a TypeError into the catch of line 1432.
AssignParsedResults(j) == ProcessingError(j, AssignToConst)

\* A fan-out without the barrier: the requests of the wave b and of every
\* later wave are issued at once.
StartWaveWithoutBarrier(frames, b, inFlight) ==
    LET groups == (b * BATCH_SIZE + 1) .. NumGroups(frames)
    IN /\ batchIndex' = b
       /\ reqState' = [g \in groups |-> "inflight"]
       /\ httpInFlight' = inFlight + FetchesOf(frames, groups)
       /\ visionCalls' = visionCalls + Cardinality(groups)

\* batch.map of line 1290 for the wave b: every request of the wave calls
\* callRunPodVision.
StartWave(frames, b, inFlight) ==
    LET groups == BatchGroups(frames, b)
    IN /\ batchIndex' = b
       /\ reqState' = [g \in groups |-> "inflight"]
       /\ httpInFlight' = inFlight + FetchesOf(frames, groups)
       /\ visionCalls' = visionCalls + Cardinality(groups)

\* Lines 1265-1367 after filterSignificantFrames has returned: with no frame
\* there is no wave and parseVisionOutputsWithOpenAI returns [] at once.
EnterVision(frames) ==
    /\ frameFiles' = frames
    /\ IF Len(frames) = 0
       THEN /\ SetJob(AssignParsedResults(job))
            /\ pc' = "failed"
            /\ UNCHANGED <<batchIndex, reqState, httpInFlight, visionCalls>>
       ELSE /\ SetJob(job)
            /\ pc' = "wave"
            /\ StartWave(frames, 0, httpInFlight)

\* POST /api/analyze-full: the job is registered and processVideoFull runs
\* up to the await of the audio extraction (progress is 10 by then).
AnalyzeFull ==
    /\ clientPc = "requesting"
    /\ ~HasJob
    /\ SetJob([NewJob EXCEPT !.stage = "audio_extraction", !.progress = Whole(10)])
    /\ pc' = "audio_extraction"
    /\ clientPc' = "responded"
    /\ UNCHANGED <<rawUtterances, video, frameFiles, batchIndex, reqState,
                   overshootResults, mediapipe, httpInFlight, visionCalls,
                   droppedRequests, failures, polled>>
    /\ UNCHANGED <<isProcessing, currentView, processingStage, pollInterval, safetyTimer>>
    /\ UNCHANGED <<retryVars, filterVars, fusionVars, scoringVars, sessionVars, runs, analysisCache>>
    /\ jobFiles' = {"video"}

\* ffmpeg 'end' of the audio extraction.
AudioExtracted ==
    /\ pc = "audio_extraction"
    /\ SetJob([job EXCEPT !.stage = "transcription", !.progress = Whole(30)])
    /\ pc' = "transcription"
    /\ UNCHANGED <<rawUtterances, video, frameFiles, batchIndex, reqState,
                   overshootResults, mediapipe, httpInFlight, visionCalls,
                   droppedRequests, failures, polled>>
    /\ UNCHANGED clientVars
    /\ UNCHANGED <<retryVars, filterVars, fusionVars, scoringVars, sessionVars, runs, analysisCache>>
    /\ jobFiles' = jobFiles \cup {"audio"}

\* Deepgram answers; classifySpeakers either returns at once or awaits the
\* classification call.
Transcribed ==
    /\ pc = "transcription"
    /\ \E t \in RawTranscripts :
        /\ rawUtterances' = t
        /\ IF NeedsClassification(t)
           THEN /\ pc' = "classify"
                /\ UNCHANGED <<analysisJobs, mediapipe, overshootResults, jobFiles>>
           ELSE BeginVideoAnalysis(ClassifyLocal(t))
    /\ UNCHANGED <<video, frameFiles, batchIndex, reqState, httpInFlight, visionCalls,
                   droppedRequests, failures, polled>>
    /\ UNCHANGED clientVars
    /\ UNCHANGED <<retryVars, filterVars, fusionVars, scoringVars, sessionVars, runs, analysisCache>>

\* The classification call answers with a clinician and a patient speaker
\* (two different speakers here).
SpeakersClassified ==
    /\ pc = "classify"
    /\ \E c \in 0..1, p \in 0..1 : c # p /\
        BeginVideoAnalysis(ClassifyMapped(rawUtterances, c, p))
    /\ UNCHANGED <<rawUtterances, video, frameFiles, batchIndex, reqState,
                   httpInFlight, visionCalls, droppedRequests, failures, polled>>
    /\ UNCHANGED clientVars
    /\ UNCHANGED <<retryVars, filterVars, fusionVars, scoringVars, sessionVars, runs, analysisCache>>

\* The classification call throws: the catch relabels positionally.
SpeakerClassificationFails ==
    /\ pc = "classify"
    /\ BeginVideoAnalysis(ClassifyFallback(rawUtterances))
    /\ failures' = failures \cup {"classification"}
    /\ UNCHANGED <<rawUtterances, video, frameFiles, batchIndex, reqState,
                   httpInFlight, visionCalls, droppedRequests, polled>>
    /\ UNCHANGED clientVars
    /\ UNCHANGED <<retryVars, filterVars, fusionVars, scoringVars, sessionVars, runs, analysisCache>>

\* ffprobe answers; the frame extraction starts.
GotVideoDuration ==
    /\ pc = "duration"
    /\ pc' = "frame_extraction"
    /\ UNCHANGED <<analysisJobs, rawUtterances, video, frameFiles, batchIndex, reqState,
                   overshootResults, mediapipe, httpInFlight, visionCalls,
                   droppedRequests, failures, polled>>
    /\ UNCHANGED clientVars
    /\ UNCHANGED <<retryVars, filterVars, fusionVars, scoringVars, sessionVars, runs, analysisCache, jobFiles>>

\* ffmpeg 'end' of the frame extraction. filterSignificantFrames awaits sharp
\* only when there are two frames or more.
FramesExtracted ==
    /\ pc = "frame_extraction"
    /\ \E v \in Videos :
        IF Len(v) <= 1
        THEN /\ EnterVision(filterSignificantFrames(AllFrameFiles(v), v,
                                                    SIGNIFICANT_THRESHOLD_PCT))
             /\ UNCHANGED video
        ELSE /\ video' = v
             /\ pc' = "filter"
             /\ UNCHANGED <<analysisJobs, frameFiles, batchIndex, reqState, httpInFlight,
                            visionCalls>>
    /\ UNCHANGED <<rawUtterances, overshootResults, mediapipe, droppedRequests,
                   failures, polled>>
    /\ UNCHANGED clientVars
    /\ UNCHANGED <<retryVars, filterVars, fusionVars, scoringVars, sessionVars, runs, analysisCache, jobFiles>>

\* filterSignificantFrames returns.
Filtered ==
    /\ pc = "filter"
    /\ \E frames \in {filterSignificantFrames(AllFrameFiles(video), video,
                                                SIGNIFICANT_THRESHOLD_PCT)} :
           EnterVision(frames)
    /\ video' = <<>>
    /\ UNCHANGED <<rawUtterances, overshootResults, mediapipe, droppedRequests,
                   failures, polled>>
    /\ UNCHANGED clientVars
    /\ UNCHANGED <<retryVars, filterVars, fusionVars, scoringVars, sessionVars, runs, analysisCache, jobFiles>>

\* A pipeline that logs the rejection of a step and goes on to the video
\* analysis instead of ending the job.
FatalFailureTolerated ==
    /\ pc \in FatalAwaits
    /\ SetJob([job EXCEPT !.stage = "video_analysis", !.progress = Whole(50)])
    /\ failures' = failures \cup {pc}
    /\ pc' = "failed"
    /\ UNCHANGED <<rawUtterances, video, frameFiles, batchIndex, reqState,
                   overshootResults, mediapipe, httpInFlight, visionCalls,
                   droppedRequests, polled>>
    /\ UNCHANGED clientVars
    /\ UNCHANGED <<retryVars, filterVars, fusionVars, scoringVars, sessionVars, runs, analysisCache, jobFiles>>

\* A fatal step rejects: audio extraction, transcription, ffprobe or frame
\* extraction.
FatalFailure ==
    /\ pc \in FatalAwaits
    /\ SetJob(ProcessingError(job, FatalMessage(pc)))
    /\ failures' = failures \cup {pc}
    /\ pc' = "failed"
    /\ UNCHANGED <<rawUtterances, video, frameFiles, batchIndex, reqState,
                   overshootResults, mediapipe, httpInFlight, visionCalls,
                   droppedRequests, polled>>
    /\ UNCHANGED clientVars
    /\ UNCHANGED <<retryVars, filterVars, fusionVars, scoringVars, sessionVars, runs, analysisCache, jobFiles>>

InFlightGroups == {g \in DOMAIN reqState : reqState[g] = "inflight"}

\* Lines 1346-1367, run when the last request of the wave has settled:
\* the results of the wave are appended, the job is updated, and the next
\* wave starts or the parsing call is made.
WaveSettled(states, inFlight) ==
    LET groups == BatchGroups(frameFiles, batchIndex)
        first == batchIndex * BATCH_SIZE + 1
        last == first + Cardinality(groups) - 1
        results == overshootResults \o FlatResults(frameFiles, states, first, last)
        updated == [job EXCEPT !.overshootResults = results,
                               !.progress = WaveProgress(results, frameFiles)]
    IN /\ overshootResults' = results
       /\ IF batchIndex + 1 < NumBatches(frameFiles)
          THEN /\ SetJob(updated)
               /\ pc' = "wave"
               /\ StartWave(frameFiles, batchIndex + 1, inFlight)
          ELSE /\ reqState' = <<>>
               /\ httpInFlight' = inFlight
               /\ UNCHANGED <<batchIndex, visionCalls>>
               /\ IF Len(results) = 0
                  THEN /\ SetJob(AssignParsedResults(updated))
                       /\ pc' = "failed"
                  ELSE /\ SetJob(updated)
                       /\ pc' = "parse"

\* A request of the wave settles: callRunPodVision returns (one result per
\* frame) or throws (the catch of line 1339 returns []). The requests of a
\* wave settle in request order here: Promise.all collects their results in
\* that order and nothing reads a result before the wave is complete.
RequestSettles(outcome) ==
    /\ pc = "wave"
    /\ InFlightGroups # {}
    /\ outcome = "failed" => droppedRequests < MaxFailedRequests
    /\ LET g == CHOOSE x \in InFlightGroups : \A y \in InFlightGroups : x <= y
           states == [reqState EXCEPT ![g] = outcome]
           inFlight == httpInFlight - Len(ImageGroup(frameFiles, g))
       IN /\ IF \E x \in DOMAIN states : states[x] = "inflight"
             THEN /\ reqState' = states
                  /\ httpInFlight' = inFlight
                  /\ UNCHANGED <<analysisJobs, pc, batchIndex, overshootResults, visionCalls>>
             ELSE WaveSettled(states, inFlight)
    /\ droppedRequests' = IF outcome = "failed" THEN droppedRequests + 1
                          ELSE droppedRequests
    /\ failures' = IF outcome = "failed" THEN failures \cup {"vision"} ELSE failures
    /\ UNCHANGED <<rawUtterances, video, frameFiles, mediapipe, polled>>
    /\ UNCHANGED clientVars
    /\ UNCHANGED <<retryVars, filterVars, fusionVars, scoringVars, sessionVars, runs, analysisCache, jobFiles>>

\* parseVisionOutputsWithOpenAI returns (the parsed results, or the raw
\* outputs from its catch); the assignment of line 1367 then throws.
VisionOutputsParsed(outcome) ==
    /\ pc = "parse"
    /\ SetJob(AssignParsedResults(job))
    /\ pc' = "failed"
    /\ failures' = IF outcome = "failed" THEN failures \cup {"parsing"} ELSE failures
    /\ UNCHANGED <<rawUtterances, video, frameFiles, batchIndex, reqState,
                   overshootResults, mediapipe, httpInFlight, visionCalls,
                   droppedRequests, polled>>
    /\ UNCHANGED clientVars
    /\ UNCHANGED <<retryVars, filterVars, fusionVars, scoringVars, sessionVars, runs, analysisCache, jobFiles>>

\* The MediaPipe child process ends; a rejection is turned into null by the
\* .catch of line 1218.
MediaPipeSettles ==
    /\ mediapipe = "running"
    /\ \E outcome \in {"resolved", "rejected"} :
        /\ mediapipe' = outcome
        /\ failures' = IF outcome = "rejected" THEN failures \cup {"mediapipe"}
                       ELSE failures
    /\ UNCHANGED <<analysisJobs, pc, rawUtterances, video, frameFiles, batchIndex, reqState,
                   overshootResults, httpInFlight, visionCalls, droppedRequests, polled>>
    /\ UNCHANGED clientVars
    /\ UNCHANGED <<retryVars, filterVars, fusionVars, scoringVars, sessionVars, runs, analysisCache, jobFiles>>

\* ------------------------------------------------------------------------
\* The registry's HTTP handlers
\* ------------------------------------------------------------------------
\* GET /api/analysis-status/:jobId from any caller.
GetAnalysisStatus ==
    /\ HasJob
    /\ polled' = AnalysisStatus(job)
    /\ UNCHANGED <<analysisJobs, pc, rawUtterances, video, frameFiles, batchIndex, reqState,
                   overshootResults, mediapipe, httpInFlight, visionCalls,
                   droppedRequests, failures>>
    /\ UNCHANGED clientVars
    /\ UNCHANGED <<retryVars, filterVars, fusionVars, scoringVars, sessionVars, runs, analysisCache, jobFiles>>

\* POST /api/overshoot-results/:jobId
PostOvershootResults ==
    /\ HasJob
    /\ \E results \in ClientResults :
        SetJob([job EXCEPT !.overshootResults = results, !.progress = Whole(80)])
    /\ UNCHANGED <<pc, rawUtterances, video, frameFiles, batchIndex, reqState,
                   overshootResults, mediapipe, httpInFlight, visionCalls,
                   droppedRequests, failures, polled>>
    /\ UNCHANGED clientVars
    /\ UNCHANGED <<retryVars, filterVars, fusionVars, scoringVars, sessionVars, runs, analysisCache, jobFiles>>

\* ------------------------------------------------------------------------
\* The client (appStore.js startProcessing)
\* ------------------------------------------------------------------------
StageNumber(stage) ==
    CASE stage = "audio_extraction" -> 1
      [] stage = "transcription" -> 2
      [] stage = "video_analysis" -> 3
      [] stage = "behavioral_scoring" -> 4
      [] OTHER -> 0

\* Lines 65-114: the store is set and the upload is posted.
StartProcessing ==
    /\ clientPc = "idle"
    /\ isProcessing' = TRUE
    /\ processingStage' = 0
    /\ currentView' = "processing"
    /\ clientPc' = "requesting"
    /\ UNCHANGED <<pollInterval, safetyTimer>>
    /\ UNCHANGED jobVars
    /\ UNCHANGED <<retryVars, filterVars, fusionVars, scoringVars, sessionVars, runs, analysisCache, jobFiles>>

\* Lines 116-197: the job id arrives; polling starts and the safety timeout
\* is armed.
ProcessingStarted ==
    /\ clientPc = "responded"
    /\ clientPc' = "started"
    /\ pollInterval' = TRUE
    /\ safetyTimer' = "armed"
    /\ UNCHANGED <<isProcessing, currentView, processingStage>>
    /\ UNCHANGED jobVars
    /\ UNCHANGED <<retryVars, filterVars, fusionVars, scoringVars, sessionVars, runs, analysisCache, jobFiles>>

\* Lines 126-188: one tick of the polling interval.
PollTick ==
    /\ pollInterval
    /\ HasJob
    /\ LET statusData == AnalysisStatus(job)
       IN /\ polled' = statusData
          /\ processingStage' =
                IF statusData.status = "complete" /\ statusData.finalResults # Null
                THEN 5
                ELSE IF statusData.status = "processing"
                        /\ StageNumber(statusData.stage) # 0
                THEN StageNumber(statusData.stage)
                ELSE processingStage
          /\ pollInterval' = (statusData.status = "processing"
                              \/ (statusData.status = "complete"
                                  /\ statusData.finalResults = Null))
          /\ IF statusData.status = "error"
             THEN isProcessing' = FALSE /\ currentView' = "upload"
             ELSE UNCHANGED <<isProcessing, currentView>>
    /\ UNCHANGED <<clientPc, safetyTimer>>
    /\ UNCHANGED <<analysisJobs, pc, rawUtterances, video, frameFiles, batchIndex, reqState,
                   overshootResults, mediapipe, httpInFlight, visionCalls,
                   droppedRequests, failures>>
    /\ UNCHANGED <<retryVars, filterVars, fusionVars, scoringVars, sessionVars, runs, analysisCache, jobFiles>>

\* Lines 191-197: 600000 ms after the start the timer fires. It
\* stops the polling and resets the view; it sends nothing to the server.
SafetyTimeout ==
    /\ safetyTimer = "armed"
    /\ safetyTimer' = "fired"
    /\ pollInterval' = FALSE
    /\ IF isProcessing
       THEN isProcessing' = FALSE /\ currentView' = "upload"
       ELSE UNCHANGED <<isProcessing, currentView>>
    /\ UNCHANGED <<clientPc, processingStage>>
    /\ UNCHANGED jobVars
    /\ UNCHANGED <<retryVars, filterVars, fusionVars, scoringVars, sessionVars, runs, analysisCache, jobFiles>>

\* ------------------------------------------------------------------------
\* Specification of one job
\* ------------------------------------------------------------------------
JobInit ==
    /\ analysisJobs = <<>>
    /\ pc = "idle"
    /\ rawUtterances = <<>>
    /\ video = <<>>
    /\ frameFiles = <<>>
    /\ batchIndex = 0
    /\ reqState = <<>>
    /\ overshootResults = <<>>
    /\ mediapipe = "idle"
    /\ httpInFlight = 0
    /\ visionCalls = 0
    /\ droppedRequests = 0
    /\ failures = {}
    /\ polled = NoPoll
    /\ jobFiles = {}
    /\ analysisCache = {}
    /\ clientPc = "idle"
    /\ isProcessing = FALSE
    /\ currentView = "upload"
    /\ processingStage = 0
    /\ pollInterval = FALSE
    /\ safetyTimer = "unarmed"

RetryIdle ==
    /\ maxRetries = 0
    /\ attempt = 0
    /\ retryPc = "idle"
    /\ apiCalls = 0
    /\ retries = <<>>
    /\ apiOutcome = "pending"

FilterIdle ==
    /\ filterInput = <<>>
    /\ filterThreshold = 0
    /\ filterPc = "idle"
    /\ filterResult = <<>>

FusionIdle ==
    /\ fusionTranscript = <<>>
    /\ fusionObservations = <<>>
    /\ fusionRuns = <<>>

ScoringIdle ==
    /\ scoreClientValid = TRUE
    /\ audioOutcome = "parsed"
    /\ scoreOutcomes = <<>>
    /\ scoreInputs = <<>>
    /\ domainEvals = <<>>
    /\ sessionReport = [domains |-> <<>>]
    /\ scoringPc = "idle"

MaxRuns == 2

Runs == 1..MaxRuns

\* A run that has not started.
NoRun ==
    [phase |-> "none", pollInterval |-> FALSE, safetyTimer |-> "unarmed",
     status |-> "none", stage |-> "none"]

RunsIdle == runs = [r \in Runs |-> NoRun]

SessionsIdle ==
    /\ sessions = {}
    /\ clock = 0
    /\ sessionLog = <<>>

Init == JobInit /\ RetryIdle /\ FilterIdle /\ FusionIdle /\ ScoringIdle /\ SessionsIdle /\ RunsIdle

Next ==
    \/ StartProcessing
    \/ AnalyzeFull
    \/ ProcessingStarted
    \/ AudioExtracted
    \/ Transcribed
    \/ SpeakersClassified
    \/ SpeakerClassificationFails
    \/ GotVideoDuration
    \/ FramesExtracted
    \/ Filtered
    \/ FatalFailure
    \/ RequestSettles("ok")
    \/ RequestSettles("failed")
    \/ VisionOutputsParsed("ok")
    \/ VisionOutputsParsed("failed")
    \/ MediaPipeSettles
    \/ GetAnalysisStatus
    \/ PostOvershootResults
    \/ PollTick
    \/ SafetyTimeout

Spec == Init /\ [][Next]_vars

\* The event loop runs every callback that is ready: a promise that has
\* settled is continued, an armed timer fires, a request in flight settles.
SpecFair == Init /\ [][Next]_vars /\ WF_vars(Next)

\* ------------------------------------------------------------------------
\* callOpenAIWithRetry
\* ------------------------------------------------------------------------
\* maxRetries: 3 at both call sites (lines 970 and 1069), 5 by default.
MaxRetriesValues == {3, 5}

\* "try again in <N>ms" hints of a rate-limit message.
Hints == {50, 500, 3000}

\* Rejections of apiCall: rateLimit is error.status === 429 or a message
\* with 'Rate limit'; hasHint is the match of /try again in (\d+)ms/.
ApiErrors ==
    {[rateLimit |-> rl, hasHint |-> FALSE, hint |-> 0] : rl \in BOOLEAN}
    \cup {[rateLimit |-> TRUE, hasHint |-> TRUE, hint |-> h] : h \in Hints}

RECURSIVE Pow2(_)
Pow2(n) == IF n = 0 THEN 1 ELSE 2 * Pow2(n - 1)

\* A schedule that halves instead of doubling.
WaitTimeHalving(a, error) ==
    IF error.hasHint THEN error.hint + 100 ELSE 16000 \div Pow2(a)

\* A wait that ignores the hint of the rejection.
WaitTimeIgnoringHint(a, error) == 1000 * Pow2(a)

\* Lines 1121-1125.
WaitTime(a, error) ==
    IF error.hasHint THEN error.hint + 100 ELSE 1000 * Pow2(a)

\* setTimeout never fires early; it may fire late.
TimerLateness == {0, 1}

RetryInit ==
    /\ maxRetries \in MaxRetriesValues
    /\ attempt = 0
    /\ retryPc = "calling"
    /\ apiCalls = 1
    /\ retries = <<>>
    /\ apiOutcome = "pending"

\* apiCall resolves: line 1111 returns its value.
ApiCallReturns ==
    /\ retryPc = "calling"
    /\ retryPc' = "returned"
    /\ apiOutcome' = "resolved"
    /\ UNCHANGED <<maxRetries, attempt, apiCalls, retries>>
    /\ UNCHANGED <<jobVars, clientVars, filterVars, fusionVars, scoringVars, sessionVars, runs>>

\* A catch that waits and retries after every rate-limit rejection, the
\* last attempt included.
ApiCallRejectsAlwaysRetrying ==
    /\ retryPc = "calling"
    /\ apiOutcome' = "rejected"
    /\ \E error \in ApiErrors :
        IF ~error.rateLimit
        THEN /\ retryPc' = "thrown"
             /\ UNCHANGED retries
        ELSE /\ retryPc' = "waiting"
             /\ retries' = Append(retries,
                    [attempt |-> attempt, hasHint |-> error.hasHint,
                     hint |-> error.hint, waitTime |-> WaitTime(attempt, error),
                     reissuedAfter |-> 0])
    /\ UNCHANGED <<maxRetries, attempt, apiCalls>>
    /\ UNCHANGED <<jobVars, clientVars, filterVars, fusionVars, scoringVars, sessionVars, runs>>

\* apiCall rejects: lines 1112-1131 rethrow, or start the wait.
ApiCallRejects ==
    /\ retryPc = "calling"
    /\ apiOutcome' = "rejected"
    /\ \E error \in ApiErrors :
        IF ~error.rateLimit \/ attempt = maxRetries
        THEN /\ retryPc' = "thrown"
             /\ UNCHANGED retries
        ELSE /\ retryPc' = "waiting"
             /\ retries' = Append(retries,
                    [attempt |-> attempt, hasHint |-> error.hasHint,
                     hint |-> error.hint, waitTime |-> WaitTime(attempt, error),
                     reissuedAfter |-> 0])
    /\ UNCHANGED <<maxRetries, attempt, apiCalls>>
    /\ UNCHANGED <<jobVars, clientVars, filterVars, fusionVars, scoringVars, sessionVars, runs>>

\* The timer of line 1131 fires; the loop (line 1109) increments attempt
\* and calls apiCall again while attempt <= maxRetries; past that the
\* function ends without a return statement, returning undefined.
RetryTimerFires ==
    /\ retryPc = "waiting"
    /\ \E late \in TimerLateness :
        retries' = [retries EXCEPT ![Len(retries)].reissuedAfter =
                        retries[Len(retries)].waitTime + late]
    /\ attempt' = attempt + 1
    /\ IF attempt + 1 <= maxRetries
       THEN /\ apiCalls' = apiCalls + 1
            /\ retryPc' = "calling"
            /\ apiOutcome' = "pending"
       ELSE /\ retryPc' = "returned_undefined"
            /\ UNCHANGED <<apiCalls, apiOutcome>>
    /\ UNCHANGED maxRetries
    /\ UNCHANGED <<jobVars, clientVars, filterVars, fusionVars, scoringVars, sessionVars, runs>>

RetryNext == ApiCallReturns \/ ApiCallRejects \/ RetryTimerFires

InitRetry == JobInit /\ FilterIdle /\ FusionIdle /\ ScoringIdle /\ SessionsIdle /\ RunsIdle /\ RetryInit

SpecRetry == InitRetry /\ [][RetryNext]_vars

\* apiCall settles and the timer of the wait fires.
SpecRetryFair == InitRetry /\ [][RetryNext]_vars /\ WF_vars(RetryNext)

\* ------------------------------------------------------------------------
\* filterSignificantFrames on its own
\* ------------------------------------------------------------------------
\* 10, 25 and 45 of 255 lie on both sides of 0.08 and 0.1: a step of 25 is above
\* 0.08 and below 0.1, steps of 15 and 20 are below both, 35 and 45 above both.
GrayLevels == {0, 10, 25, 45, 255}

\* 0, 0.08 (the pipeline's), 0.1 (the default) and 1.
Thresholds == {0, 8, 10, 100}

FilterInit ==
    /\ \E n \in 0..MaxFilterFrames :
        filterInput \in [1..n -> GrayLevels \cup {Corrupt}]
    /\ filterThreshold \in Thresholds
    /\ filterPc = "called"
    /\ filterResult = <<>>

FilterReturns ==
    /\ filterPc = "called"
    /\ filterResult' = filterSignificantFrames(AllFrameFiles(filterInput), filterInput,
                                               filterThreshold)
    /\ filterPc' = "returned"
    /\ UNCHANGED <<filterInput, filterThreshold>>
    /\ UNCHANGED <<jobVars, clientVars, retryVars, fusionVars, scoringVars, sessionVars, runs>>

FilterNext == FilterReturns

InitFilter == JobInit /\ RetryIdle /\ FusionIdle /\ ScoringIdle /\ SessionsIdle /\ RunsIdle /\ FilterInit

SpecFilter == InitFilter /\ [][FilterNext]_vars

\* ------------------------------------------------------------------------
\* extractEventsFromAnalysis (lines 1592-1888)
\* ------------------------------------------------------------------------
\* Times are in hundredths of a second. A text is the set of the phrases it
\* contains; a matcher (one `if` of the code, in the code's order) lists
\* phrases its regular expressions accept: it fires when the text has one of
\* `any`, all of `all` and none of `unless`.
Matcher(type, severity, any, all, unless) ==
    [type |-> type, severity |-> severity, any |-> any, all |-> all, unless |-> unless]

PoorEyePhrases == {"eye contact is poor", "eye contact was limited"}

VisualMatchers ==
    << Matcher("Poor eye contact", "warning", PoorEyePhrases, {}, {}),
       Matcher("Good eye contact", "positive",
               {"eye contact is good", "eye contact maintained"}, {}, PoorEyePhrases),
       Matcher("Defensive posture", "warning", {"arms crossed", "arms folded"}, {}, {}),
       Matcher("Engaged lean", "positive", {"leaning forward", "forward lean"}, {}, {}),
       Matcher("Disengaged posture", "warning", {"leaning back", "slouch"}, {}, {}),
       Matcher("Open posture", "positive", {"open posture"}, {}, {}),
       Matcher("Turned away", "warning", {"turned away", "facing away"}, {}, {}),
       Matcher("Nodding", "positive", {"nodding", "head nod"}, {}, {}),
       Matcher("Positive expression", "positive", {"smiling", "friendly"}, {}, {}),
       Matcher("Negative expression", "warning", {"frown", "stern"}, {}, {}),
       Matcher("Illustrative gestures", "positive", {"gesturing", "hand movement"}, {}, {}),
       Matcher("Screen focus", "warning", {"looking at screen", "focused on screen"}, {}, {}),
       Matcher("Distraction", "warning", {"distracted", "not paying attention"}, {}, {}) >>

TeachbackPhrases == {"can you tell me", "in your own words", "just to make sure"}

JargonTerms == {"hypertension", "tachycardia", "edema"}

ExplanationPhrases == {"that is when", "that's when"}

SpeechMatchers ==
    << Matcher("Empathy statement", "positive",
               {"i understand", "i'm sorry to hear", "tell me more about"}, {}, {}),
       Matcher("Teach-back", "positive", TeachbackPhrases, {}, {}),
       Matcher("Open question", "positive", {"^how", "^what", "what brings"}, {}, {}),
       Matcher("Closed question", "neutral",
               {"^do you ", "^are you ", "^can you "}, {}, TeachbackPhrases),
       Matcher("Jargon explained", "positive", JargonTerms, {"that is when"}, {}),
       Matcher("Unexplained jargon", "warning", JargonTerms, {}, ExplanationPhrases),
       Matcher("Interruption", "warning", {"hold on", "let me just"}, {}, {}),
       Matcher("Reflective summary", "positive",
               {"let me summarize", "it sounds like"}, {}, {}),
       Matcher("Partnership language", "positive",
               {"we can", "what do you think"}, {}, {}) >>

Matches(m, text) ==
    /\ m.any \cap text # {}
    /\ m.all \subseteq text
    /\ m.unless \cap text = {}

\* event.time.toFixed(1): the time in tenths, the nearest one (the values of
\* the model are not half-way between two tenths).
ToFixed1(time) == (time + 5) \div 10

\* The key of addEvent, `${event.time.toFixed(1)}-${event.type}`.
EventKey(event) == <<ToFixed1(event.time), event.type>>

\* A fusion in progress: the events array and the eventTimestamps set.
NoEvents == [events |-> <<>>, eventTimestamps |-> {}]

\* An addEvent that pushes every event.
addEventWithoutKey(acc, event) ==
    [events |-> Append(acc.events, event),
     eventTimestamps |-> acc.eventTimestamps \cup {EventKey(event)}]

\* An addEvent that infers the severity: a type seen before in the list is
\* added as a warning.
addEventEscalating(acc, event) ==
    IF EventKey(event) \in acc.eventTimestamps
    THEN acc
    ELSE [events |-> Append(acc.events,
                            IF \E i \in DOMAIN acc.events : acc.events[i].type = event.type
                            THEN [event EXCEPT !.severity = "warning"]
                            ELSE event),
          eventTimestamps |-> acc.eventTimestamps \cup {EventKey(event)}]

addEvent(acc, event) ==
    IF EventKey(event) \in acc.eventTimestamps
    THEN acc
    ELSE [events |-> Append(acc.events, event),
          eventTimestamps |-> acc.eventTimestamps \cup {EventKey(event)}]

\* The `if`s of one item, from matcher k on.
RECURSIVE ApplyMatchers(_, _, _, _, _)
ApplyMatchers(acc, matchers, k, time, text) ==
    IF k > Len(matchers)
    THEN acc
    ELSE ApplyMatchers(
            IF Matches(matchers[k], text)
            THEN addEvent(acc, [time |-> time, type |-> matchers[k].type,
                                severity |-> matchers[k].severity])
            ELSE acc,
            matchers, k + 1, time, text)

\* overshootResults.forEach, from result i on.
RECURSIVE FuseObservations(_, _, _)
FuseObservations(acc, results, i) ==
    IF i > Len(results)
    THEN acc
    ELSE FuseObservations(
            ApplyMatchers(acc, VisualMatchers, 1, results[i].timeInVideo, results[i].analysis),
            results, i + 1)

\* utterance.speaker.toLowerCase().includes('clinician')
IsClinician(speaker) == speaker = "Clinician"

\* transcript.forEach, from utterance i on. An utterance without speaker
\* ("") and an utterance of another speaker add nothing.
RECURSIVE FuseTranscript(_, _, _)
FuseTranscript(acc, transcript, i) ==
    IF i > Len(transcript)
    THEN acc
    ELSE FuseTranscript(
            IF transcript[i].speaker # "" /\ IsClinician(transcript[i].speaker)
            THEN ApplyMatchers(acc, SpeechMatchers, 1, transcript[i].start, transcript[i].text)
            ELSE acc,
            transcript, i + 1)

\* Array.prototype.sort with (a, b) => a.time - b.time: a stable sort, events
\* of equal time keep their insertion order.
RECURSIVE InsertByTime(_, _)
InsertByTime(sorted, event) ==
    IF sorted = <<>> \/ sorted[Len(sorted)].time <= event.time
    THEN Append(sorted, event)
    ELSE Append(InsertByTime(SubSeq(sorted, 1, Len(sorted) - 1), event), sorted[Len(sorted)])

RECURSIVE SortByTimeFrom(_, _, _)
SortByTimeFrom(sorted, events, i) ==
    IF i > Len(events)
    THEN sorted
    ELSE SortByTimeFrom(InsertByTime(sorted, events[i]), events, i + 1)

\* A return without the final sort.
UnsortedEvents(events) == events

SortByTime(events) == SortByTimeFrom(<<>>, events, 1)

\* A fusion whose eventTimestamps set outlives the call: it starts from the
\* keys of the events returned by the previous run.
extractEventsKeepingTimestamps(transcript, results) ==
    LET previous == IF fusionRuns = <<>> THEN <<>> ELSE fusionRuns[Len(fusionRuns)]
        start == [events |-> <<>>,
                  eventTimestamps |-> {EventKey(previous[k]) : k \in DOMAIN previous}]
    IN SortByTime(FuseTranscript(FuseObservations(start, results, 1), transcript, 1).events)

extractEventsFromAnalysis(transcript, results) ==
    SortByTime(FuseTranscript(FuseObservations(NoEvents, results, 1), transcript, 1).events)

\* Inputs of the fusion.
EventTimes == {0, 4, 100}

ObservationTexts ==
    { {},
      {"eye contact is good", "nodding"},
      {"eye contact is poor", "eye contact is good"},
      {"nodding", "arms crossed"} }

FusionObservations ==
    [timeInVideo : EventTimes, analysis : ObservationTexts]

FusionTranscripts ==
    { <<>>,
      << [speaker |-> "Clinician", start |-> 0, text |-> {"^how", "i understand"}] >>,
      << [speaker |-> "Patient", start |-> 0, text |-> {"i understand"}],
         [speaker |-> "Clinician", start |-> 100, text |-> {"^can you ", "can you tell me"}] >>,
      << [speaker |-> "Clinician", start |-> 100, text |-> {"hypertension", "that is when"}],
         [speaker |-> "Clinician", start |-> 4, text |-> {"hypertension", "^do you "}],
         [speaker |-> "", start |-> 0, text |-> {"hold on"}] >>,
      << [speaker |-> "Clinician", start |-> 0, text |-> {"i understand"}],
         [speaker |-> "Clinician", start |-> 4, text |-> {"i'm sorry to hear", "we can"}] >> }

FusionInit ==
    /\ \E n \in 0..MaxObservations :
        fusionObservations \in [1..n -> FusionObservations]
    /\ fusionTranscript \in FusionTranscripts
    /\ fusionRuns = <<>>

\* One run of the fusion on the same inputs; fusionRuns keeps what every run
\* returned.
ExtractEvents ==
    /\ Len(fusionRuns) < 2
    /\ fusionRuns' = Append(fusionRuns,
                            extractEventsFromAnalysis(fusionTranscript, fusionObservations))
    /\ UNCHANGED <<fusionTranscript, fusionObservations>>
    /\ UNCHANGED <<jobVars, clientVars, retryVars, filterVars, scoringVars, sessionVars, runs>>

FusionNext == ExtractEvents

InitFusion == JobInit /\ RetryIdle /\ FilterIdle /\ ScoringIdle /\ SessionsIdle /\ RunsIdle /\ FusionInit

SpecFusion == InitFusion /\ [][FusionNext]_vars

\* ------------------------------------------------------------------------
\* generateSessionData and the domain evaluators (part_006)
\* ------------------------------------------------------------------------
Domains == {"communication_skills", "patient_education", "professionalism", "safety"}

\* Scores a conforming response carries (the schemas bound score to 0..10).
ServiceScores == {0, 7, 10}

\* What openai.beta.chat.completions.parse does for one call: it resolves
\* with a parsed payload, it rejects (network or API error, a payload that
\* fails the schema), or it resolves with message.parsed null (a refusal).
CallOutcomes ==
    [kind : {"parsed"}, score : ServiceScores]
        \cup {[kind |-> "throws", score |-> 0], [kind |-> "no_parsed", score |-> 0]}

\* What the fallback heuristics read in the transcript and the observations.
FallbackInputs ==
    [empathyCount : {0, 3}, eyeContactPct : {0, 100}, teachBackUsed : BOOLEAN]

\* The score of getFallback*Eval (part_006:246-390).
FallbackScore(d, inputs) ==
    CASE d = "communication_skills" ->
            Min(10, 6 + (inputs.empathyCount \div 2) + (inputs.eyeContactPct \div 20))
      [] d = "patient_education" -> IF inputs.teachBackUsed THEN 8 ELSE 6
      [] d = "professionalism" -> 8
      [] d = "safety" -> 5

PendingEval == [source |-> "pending"]

\* completion.choices[0].message.parsed when it is null.
NullEval == [source |-> "null"]

FallbackEval(d, inputs) == [source |-> "fallback", score |-> FallbackScore(d, inputs)]

\* An evaluator without the catch: a rejected call leaves no evaluation.
evaluateDomainWithoutCatch(d, clientValid, outcome, inputs) ==
    IF ~clientValid
    THEN FallbackEval(d, inputs)
    ELSE CASE outcome.kind = "parsed" -> [source |-> "service", score |-> outcome.score]
           [] outcome.kind = "throws" -> NullEval
           [] outcome.kind = "no_parsed" -> NullEval

\* evaluateCommunicationSkills, evaluatePatientEducation,
\* evaluateProfessionalism and evaluateSafety. Without a valid client the
\* first returns the fallback at once and the others throw a TypeError
\* inside their try; both ways the fallback is returned.
evaluateDomain(d, clientValid, outcome, inputs) ==
    IF ~clientValid
    THEN FallbackEval(d, inputs)
    ELSE CASE outcome.kind = "parsed" -> [source |-> "service", score |-> outcome.score]
           [] outcome.kind = "throws" -> FallbackEval(d, inputs)
           [] outcome.kind = "no_parsed" -> NullEval

\* A mapping whose boundaries belong to the lower grade.
calculateGradeExclusive(percentage) ==
    IF ~NumGeq(Whole(90), percentage) THEN "honors"
    ELSE IF ~NumGeq(Whole(80), percentage) THEN "high_pass"
    ELSE IF ~NumGeq(Whole(70), percentage) THEN "pass"
    ELSE "fail"

calculateGrade(percentage) ==
    IF NumGeq(percentage, Whole(90)) THEN "honors"
    ELSE IF NumGeq(percentage, Whole(80)) THEN "high_pass"
    ELSE IF NumGeq(percentage, Whole(70)) THEN "pass"
    ELSE "fail"

\* Lines 1471-1522: the aggregate of four evaluations.
SessionData(evals) ==
    LET totalScore == evals["communication_skills"].score + evals["patient_education"].score
                        + evals["professionalism"].score + evals["safety"].score
        percentage == Num(totalScore * 100, 40)
    IN [domains |-> evals,
        total_score |-> totalScore,
        percentage |-> percentage,
        grade |-> calculateGrade(percentage)]

NoReport == [domains |-> <<>>]

ScoringInit ==
    /\ scoreClientValid \in BOOLEAN
    /\ audioOutcome \in {"parsed", "throws", "no_parsed"}
    /\ scoreOutcomes \in [Domains -> CallOutcomes]
    /\ scoreClientValid = FALSE =>
          /\ audioOutcome = "throws"
          /\ \A d \in Domains : scoreOutcomes[d].kind = "throws"
    /\ scoreInputs \in FallbackInputs
    /\ domainEvals = [d \in Domains |-> PendingEval]
    /\ sessionReport = NoReport
    /\ scoringPc = "classifying"

\* Lines 1450-1468: classifyAudioSections settles (it catches its errors),
\* `audioClassification.sections` is read and the four evaluators start.
AudioSectionsClassified ==
    /\ scoringPc = "classifying"
    /\ scoringPc' = IF audioOutcome = "no_parsed" THEN "thrown" ELSE "evaluating"
    /\ UNCHANGED <<scoreClientValid, audioOutcome, scoreOutcomes, scoreInputs, domainEvals,
                   sessionReport>>
    /\ UNCHANGED <<jobVars, clientVars, retryVars, filterVars, fusionVars, sessionVars, runs>>

\* One evaluator of the Promise.all of line 1459 settles.
DomainEvaluated ==
    /\ scoringPc = "evaluating"
    /\ \E d \in Domains :
        /\ domainEvals[d] = PendingEval
        /\ domainEvals' = [domainEvals EXCEPT
                ![d] = evaluateDomain(d, scoreClientValid, scoreOutcomes[d], scoreInputs)]
    /\ UNCHANGED <<scoreClientValid, audioOutcome, scoreOutcomes, scoreInputs, sessionReport,
                   scoringPc>>
    /\ UNCHANGED <<jobVars, clientVars, retryVars, filterVars, fusionVars, sessionVars, runs>>

\* Lines 1471-1588 after the Promise.all: reading .score of a null
\* evaluation throws a TypeError.
ScoresAggregated ==
    /\ scoringPc = "evaluating"
    /\ \A d \in Domains : domainEvals[d] # PendingEval
    /\ IF \E d \in Domains : domainEvals[d] = NullEval
       THEN /\ scoringPc' = "thrown"
            /\ UNCHANGED sessionReport
       ELSE /\ scoringPc' = "returned"
            /\ sessionReport' = SessionData(domainEvals)
    /\ UNCHANGED <<scoreClientValid, audioOutcome, scoreOutcomes, scoreInputs, domainEvals>>
    /\ UNCHANGED <<jobVars, clientVars, retryVars, filterVars, fusionVars, sessionVars, runs>>

ScoringNext == AudioSectionsClassified \/ DomainEvaluated \/ ScoresAggregated

InitScoring == JobInit /\ RetryIdle /\ FilterIdle /\ FusionIdle /\ SessionsIdle /\ RunsIdle /\ ScoringInit

SpecScoring == InitScoring /\ [][ScoringNext]_vars

\* ------------------------------------------------------------------------
\* The session store (database.js: table sessions)
\* ------------------------------------------------------------------------
MaxSessionCalls == 3

SessionIds == {"job-1", "job-2"}

\* The part of a report the store reads, and one field (the rounded share of
\* patient speech, NaN for a transcript of duration 0) that JSON cannot hold.
SessionPayloads ==
    {[hasEvaluation |-> TRUE, total_score |-> 28, grade |-> "pass", patient_speaking_pct |-> "50"],
     [hasEvaluation |-> TRUE, total_score |-> 0, grade |-> "fail", patient_speaking_pct |-> "NaN"],
     [hasEvaluation |-> FALSE, total_score |-> 0, grade |-> "", patient_speaking_pct |-> "50"]}

SessionDatas ==
    {[id |-> i, title |-> i, osceEvaluation |-> e] : i \in SessionIds, e \in SessionPayloads}

NoSessionData ==
    [id |-> Null, title |-> Null,
     osceEvaluation |-> [hasEvaluation |-> FALSE, total_score |-> 0, grade |-> "",
                         patient_speaking_pct |-> Null]]

\* JSON.stringify: the text of an object, in which NaN is written as null.
JSONStringify(sessionData) ==
    [json |-> [sessionData EXCEPT !.osceEvaluation.patient_speaking_pct =
                    IF @ = "NaN" THEN Null ELSE @]]

\* JSON.parse of a text written by JSON.stringify: the object it describes.
JSONParse(text) == text.json

SessionRows(rows, sessionId) == {r \in rows : r.id = sessionId}

\* INSERT OR REPLACE with a fresh created_at on every save.
saveSessionWithoutCoalesce(rows, sessionData, now) ==
    (rows \ SessionRows(rows, sessionData.id)) \cup
        {[id |-> sessionData.id,
          title |-> sessionData.title,
          overall_grade |-> IF sessionData.osceEvaluation.hasEvaluation
                            THEN sessionData.osceEvaluation.grade ELSE "N/A",
          overall_score |-> IF sessionData.osceEvaluation.hasEvaluation
                            THEN sessionData.osceEvaluation.total_score ELSE 0,
          session_data |-> JSONStringify(sessionData),
          created_at |-> now,
          last_viewed_at |-> now]}

\* Lines 249-271: INSERT OR REPLACE, created_at taken from the row that is
\* replaced when there is one.
saveSession(rows, sessionData, now) ==
    LET old == SessionRows(rows, sessionData.id)
    IN (rows \ old) \cup
        {[id |-> sessionData.id,
          title |-> sessionData.title,
          overall_grade |-> IF sessionData.osceEvaluation.hasEvaluation
                            THEN sessionData.osceEvaluation.grade ELSE "N/A",
          overall_score |-> IF sessionData.osceEvaluation.hasEvaluation
                            THEN sessionData.osceEvaluation.total_score ELSE 0,
          session_data |-> JSONStringify(sessionData),
          created_at |-> IF old = {} THEN now ELSE (CHOOSE r \in old : TRUE).created_at,
          last_viewed_at |-> now]}

\* Lines 293-317: the value returned and the table after the touch.
getSession(rows, sessionId) ==
    LET found == SessionRows(rows, sessionId)
    IN IF found = {} THEN NoSessionData
       ELSE JSONParse((CHOOSE r \in found : TRUE).session_data)

touchSession(rows, sessionId, now) ==
    {IF r.id = sessionId THEN [r EXCEPT !.last_viewed_at = now] ELSE r : r \in rows}

\* Lines 322-328.
deleteSession(rows, sessionId) == rows \ SessionRows(rows, sessionId)

SessionCall(op, sessionId, data) ==
    [op |-> op, id |-> sessionId, data |-> data, at |-> clock']

\* CURRENT_TIMESTAMP has a resolution of one second: two calls may read the
\* same value.
ClockAdvances == \E dt \in {0, 1} : clock' = clock + dt

SaveSession ==
    /\ Len(sessionLog) < MaxSessionCalls
    /\ ClockAdvances
    /\ \E sessionData \in SessionDatas :
        /\ sessions' = saveSession(sessions, sessionData, clock')
        /\ sessionLog' = Append(sessionLog, SessionCall("save", sessionData.id, sessionData))
    /\ UNCHANGED <<jobVars, clientVars, retryVars, filterVars, fusionVars, scoringVars, runs>>

GetSession ==
    /\ Len(sessionLog) < MaxSessionCalls
    /\ ClockAdvances
    /\ \E sessionId \in SessionIds :
        /\ sessions' = touchSession(sessions, sessionId, clock')
        /\ sessionLog' = Append(sessionLog,
                                SessionCall("get", sessionId, getSession(sessions, sessionId)))
    /\ UNCHANGED <<jobVars, clientVars, retryVars, filterVars, fusionVars, scoringVars, runs>>

DeleteSession ==
    /\ Len(sessionLog) < MaxSessionCalls
    /\ ClockAdvances
    /\ \E sessionId \in SessionIds :
        /\ sessions' = deleteSession(sessions, sessionId)
        /\ sessionLog' = Append(sessionLog, SessionCall("delete", sessionId, NoSessionData))
    /\ UNCHANGED <<jobVars, clientVars, retryVars, filterVars, fusionVars, scoringVars, runs>>

SessionsNext == SaveSession \/ GetSession \/ DeleteSession

InitSessions ==
    JobInit /\ RetryIdle /\ FilterIdle /\ FusionIdle /\ ScoringIdle /\ SessionsIdle /\ RunsIdle

SpecSessions == InitSessions /\ [][SessionsNext]_vars

\* ------------------------------------------------------------------------
\* Successive processing runs of one page (appStore.js startProcessing,
\* UploadView.jsx startProcessingFromJobId)
\* ------------------------------------------------------------------------
SetRun(r, run) == runs' = [runs EXCEPT ![r] = run]

RunFrame ==
    /\ UNCHANGED <<clientPc, pollInterval, safetyTimer>>
    /\ UNCHANGED <<jobVars, retryVars, filterVars, fusionVars, scoringVars, sessionVars>>

\* appStore.js lines 66-71: the user starts run r from the upload view, once
\* the run before has ended; the upload is posted.
RunStarts(r) ==
    /\ runs[r].phase = "none"
    /\ r > 1 => runs[r - 1].phase = "ended"
    /\ currentView = "upload"
    /\ ~isProcessing
    /\ isProcessing' = TRUE
    /\ processingStage' = 0
    /\ currentView' = "processing"
    /\ SetRun(r, [runs[r] EXCEPT !.phase = "requesting"])
    /\ RunFrame

\* Lines 107-123 and 189-204: the upload is answered. With a job id the
\* polling interval and the 10-minute timer of the run are armed; otherwise
\* the catch resets the store.
RunAnswered(r) ==
    /\ runs[r].phase = "requesting"
    /\ \E success \in BOOLEAN :
        IF success
        THEN /\ SetRun(r, [phase |-> "polling", pollInterval |-> TRUE,
                           safetyTimer |-> "armed", status |-> "processing",
                           stage |-> "audio_extraction"])
             /\ UNCHANGED <<isProcessing, currentView>>
        ELSE /\ SetRun(r, [runs[r] EXCEPT !.phase = "ended"])
             /\ isProcessing' = FALSE
             /\ currentView' = "upload"
    /\ UNCHANGED processingStage
    /\ RunFrame

\* The job of run r on the server moves to its next stage
\* (part_008:1162, 1211).
RunJobAdvances(r) ==
    /\ runs[r].status = "processing"
    /\ runs[r].stage \in {"audio_extraction", "transcription"}
    /\ SetRun(r, [runs[r] EXCEPT !.stage = IF @ = "audio_extraction"
                                           THEN "transcription" ELSE "video_analysis"])
    /\ UNCHANGED <<isProcessing, currentView, processingStage>>
    /\ RunFrame

\* The job of run r ends, with status 'error' as every job does
\* (part_008:1367, 1432-1437).
RunJobFails(r) ==
    /\ runs[r].status = "processing"
    /\ SetRun(r, [runs[r] EXCEPT !.status = "error"])
    /\ UNCHANGED <<isProcessing, currentView, processingStage>>
    /\ RunFrame

\* Lines 126-188: one tick of the polling interval of run r.
RunPolls(r) ==
    /\ runs[r].pollInterval
    /\ IF runs[r].status = "error"
       THEN /\ SetRun(r, [runs[r] EXCEPT !.pollInterval = FALSE, !.phase = "ended"])
            /\ isProcessing' = FALSE
            /\ currentView' = "upload"
            /\ UNCHANGED processingStage
       ELSE /\ processingStage' = StageNumber(runs[r].stage)
            /\ UNCHANGED <<runs, isProcessing, currentView>>
    /\ RunFrame

\* Lines 191-197: the timer of run r fires 600000 ms after it was armed, so
\* after the timers of the runs before. Nothing ever clears it.
RunSafetyTimeout(r) ==
    /\ runs[r].safetyTimer = "armed"
    /\ \A q \in Runs : q < r => runs[q].safetyTimer # "armed"
    /\ SetRun(r, [runs[r] EXCEPT !.safetyTimer = "fired", !.pollInterval = FALSE,
                                 !.phase = "ended"])
    /\ IF isProcessing
       THEN isProcessing' = FALSE /\ currentView' = "upload"
       ELSE UNCHANGED <<isProcessing, currentView>>
    /\ UNCHANGED processingStage
    /\ RunFrame

RunsNext ==
    \E r \in Runs :
        \/ RunStarts(r)
        \/ RunAnswered(r)
        \/ RunJobAdvances(r)
        \/ RunJobFails(r)
        \/ RunPolls(r)
        \/ RunSafetyTimeout(r)

InitRuns ==
    JobInit /\ RetryIdle /\ FilterIdle /\ FusionIdle /\ ScoringIdle /\ SessionsIdle /\ RunsIdle

SpecRuns == InitRuns /\ [][RunsNext]_vars

\* ========================================================================
\* Claims
\* ========================================================================

\* C1: a job in which every external step succeeds reaches stage and status
\* 'complete' with progress 100 and a non-null finalResults, and never
\* enters status 'error'. Stated on the runs in which no external step has
\* failed: such a job is never in status 'error'.
C1_SuccessfulJobNeverErrors ==
    (HasJob /\ failures = {}) => job.status # "error"

\* C2: the progress returned by successive status polls is non-decreasing
\* until the job is terminal, under any interleaving with the pipeline and
\* with POST /api/overshoot-results.
C2_PolledProgressNonDecreasing ==
    [][(polled.status = "processing" /\ polled'.status = "processing")
        => NumGeq(polled'.progress, polled.progress)]_vars

\* C3: a status poll of a terminal job shows exactly one of a populated
\* finalResults and a non-null error.
C3_TerminalPollHasExactlyOne ==
    polled.status \in {"complete", "error"}
        => ~((polled.finalResults # Null) <=> (polled.error # Null))

C3_Witness ==
    /\ polled.status = "error"
    /\ polled.error = AssignToConst
    /\ polled.finalResults = Null

\* C4: a job still processing when the wall-clock budget has elapsed is
\* forced into the error state: once the 10-minute timer armed at the start
\* of the run has fired, the job is not in status 'processing'.
C4_TimeoutForcesError ==
    safetyTimer = "fired" => job.status # "processing"

\* C5: at every moment of the vision fan-out at most BATCH_SIZE (10)
\* vision-inference HTTP requests are in flight.
C5_InFlightWithinBound == httpInFlight <= BATCH_SIZE

\* C6: the frames of a failing vision request are dropped only after the
\* request has been reissued: whenever a request has been dropped,
\* callRunPodVision has been called more often than there are requests
\* started so far.
C6_DroppedOnlyAfterReissue ==
    droppedRequests > 0
        => visionCalls > Min((batchIndex + 1) * BATCH_SIZE, NumGroups(frameFiles))

\* C7: a failing vision request never moves the job to status 'error'; the
\* job goes on with the observations of the successful requests. Stated on
\* the runs in which only vision requests have failed.
C7_FailedRequestDoesNotFailJob ==
    (HasJob /\ failures = {"vision"}) => job.status # "error"

\* C8 (as claimed): in callOpenAIWithRetry the wait before retry k+1 is at
\* least the wait before retry k, for every sequence of rate-limit
\* rejections, with or without hints.
C8_WaitsNonDecreasing ==
    \A k \in 1..(Len(retries) - 1) : retries[k + 1].waitTime >= retries[k].waitTime

\* C8 (amended): the wait before retry k+1 is at least the wait before
\* retry k whenever neither of the two rejections carries a hint.
C8_UnhintedWaitsNonDecreasing ==
    \A k \in 1..(Len(retries) - 1) :
        (~retries[k].hasHint /\ ~retries[k + 1].hasHint)
            => retries[k + 1].waitTime >= retries[k].waitTime

C8_Witness ==
    /\ Len(retries) >= 3
    /\ ~retries[2].hasHint
    /\ ~retries[3].hasHint
    /\ retryPc = "calling"

\* C9: after a rate-limit rejection with a hint of N ms the call is
\* reissued no earlier than N ms later; without a hint the wait before
\* retry number a (a = 0, 1, ...) is 1000 * 2^a ms.
C9_HintHonouredElseExponential ==
    \A k \in 1..Len(retries) :
        IF retries[k].hasHint
        THEN /\ retries[k].waitTime >= retries[k].hint
             /\ (k < Len(retries) \/ retryPc # "waiting")
                    => retries[k].reissuedAfter >= retries[k].hint
        ELSE retries[k].waitTime = 1000 * Pow2(k - 1)

C9_Witness ==
    /\ Len(retries) >= 3
    /\ retries[1].hasHint /\ retries[1].hint = 500
    /\ ~retries[2].hasHint
    /\ retries[3].hasHint
    /\ retryPc = "calling"

\* C10: filterSignificantFrames returns a subsequence of its input (order
\* kept, no duplicates) that starts with the first input frame, and the
\* empty list for an empty input. The input is the sorted list of frame
\* files 1..n, so a subsequence is a strictly increasing list of them.
C10_SubsequenceKeepingFirst ==
    filterPc = "returned" =>
        IF Len(filterInput) = 0
        THEN filterResult = <<>>
        ELSE /\ Len(filterResult) >= 1
             /\ filterResult[1] = 1
             /\ \A i \in 1..Len(filterResult) : filterResult[i] \in 1..Len(filterInput)
             /\ \A i \in 1..(Len(filterResult) - 1) : filterResult[i] < filterResult[i + 1]

C10_Witness ==
    /\ filterPc = "returned"
    /\ Len(filterInput) = 4
    /\ filterResult = <<1, 3>>

\* C11: in the result of filterSignificantFrames every retained frame after
\* the first scores strictly more than the threshold against the frame
\* retained before it, and every discarded frame scores at most the
\* threshold against the frame that was last retained when it was examined
\* (the latest retained frame before it in the input).
C11_RetainedExceedDiscardedWithin ==
    (filterPc = "returned" /\ Len(filterInput) > 0) =>
        LET kept == {filterResult[k] : k \in 1..Len(filterResult)}
            anchor(f) == CHOOSE a \in kept :
                            a < f /\ \A b \in kept : b < f => b <= a
            score(a, f) == calculateFrameDifference(filterInput[a], filterInput[f])
        IN /\ \A k \in 2..Len(filterResult) :
                ExceedsThreshold(score(filterResult[k - 1], filterResult[k]),
                                 filterThreshold)
           /\ \A f \in (1..Len(filterInput)) \ kept :
                /\ \E a \in kept : a < f
                /\ ~ExceedsThreshold(score(anchor(f), f), filterThreshold)

\* Frame 3 is retained against frame 1 although it is within the threshold
\* of frame 2, which was discarded.
C11_Witness ==
    /\ filterPc = "returned"
    /\ filterInput = <<0, 25, 45>>
    /\ filterThreshold = 10
    /\ filterResult = <<1, 3>>

\* C12: for thresholds t1 < t2, filterSignificantFrames retains at least as
\* many frames of a sequence with t1 as with t2. Here t1 is the threshold
\* of the call and t2 ranges over the larger thresholds.
C12_MonotonicCoarsening ==
    filterPc = "returned" =>
        \A t2 \in Thresholds :
            filterThreshold < t2 =>
                Len(filterResult) >=
                    Len(filterSignificantFrames(AllFrameFiles(filterInput), filterInput, t2))

\* C13: for a static video (all frames readable and identical, score 0) and
\* any threshold in [0, 1], filterSignificantFrames retains exactly frame 0
\* (the first file).
C13_StaticVideoKeepsFirstOnly ==
    (/\ filterPc = "returned"
     /\ Len(filterInput) > 0
     /\ \A i \in 1..Len(filterInput) :
            filterInput[i] # Corrupt /\ filterInput[i] = filterInput[1])
        => filterResult = <<1>>

C13_Witness ==
    /\ filterPc = "returned"
    /\ filterInput = <<25, 25, 25, 25>>
    /\ filterThreshold = 0
    /\ filterResult = <<1>>

\* C14: the event list returned by extractEventsFromAnalysis has no two
\* events with the same type and the same time rounded to one decimal.
C14_NoDuplicateTypeAndRoundedTime ==
    \A r \in DOMAIN fusionRuns :
        \A i, j \in DOMAIN fusionRuns[r] :
            (/\ fusionRuns[r][i].type = fusionRuns[r][j].type
             /\ ToFixed1(fusionRuns[r][i].time) = ToFixed1(fusionRuns[r][j].time))
                => i = j

\* Two observations 0.04 s apart both show good eye contact and nodding:
\* the two events of the second one are dropped.
C14_Witness ==
    /\ Len(fusionRuns) >= 1
    /\ fusionTranscript = <<>>
    /\ fusionObservations =
          << [timeInVideo |-> 0, analysis |-> {"eye contact is good", "nodding"}],
             [timeInVideo |-> 4, analysis |-> {"eye contact is good", "nodding"}] >>
    /\ Len(fusionRuns[1]) = 2

\* C15 as stated: consecutive events of the returned list have strictly
\* increasing times.
C15_StrictlyTimeOrdered ==
    \A r \in DOMAIN fusionRuns :
        \A i \in 1..(Len(fusionRuns[r]) - 1) :
            fusionRuns[r][i].time < fusionRuns[r][i + 1].time

\* C15: consecutive events of the list returned by
\* extractEventsFromAnalysis have non-decreasing times, and two consecutive
\* events of the same type have strictly increasing times.
C15_TimeOrdered ==
    \A r \in DOMAIN fusionRuns :
        \A i \in 1..(Len(fusionRuns[r]) - 1) :
            /\ fusionRuns[r][i].time <= fusionRuns[r][i + 1].time
            /\ fusionRuns[r][i].type = fusionRuns[r][i + 1].type
                 => fusionRuns[r][i].time < fusionRuns[r][i + 1].time

\* The observation at 1 s comes first in the input and last in the result.
C15_Witness ==
    /\ Len(fusionRuns) >= 1
    /\ Len(fusionObservations) = 2
    /\ fusionObservations[1].timeInVideo = 100
    /\ fusionObservations[2].timeInVideo = 0
    /\ Len(fusionRuns[1]) >= 3
    /\ fusionRuns[1][1].time = 0
    /\ fusionRuns[1][Len(fusionRuns[1])].time = 100

C17_SingleSpeakerIsClinicianWithoutCall ==
    (HasJob /\ Cardinality(SpeakerIds(rawUtterances)) = 1) =>
        /\ pc # "classify"
        /\ "classification" \notin failures
        /\ job.stage = "video_analysis"
        /\ \A i \in DOMAIN rawUtterances :
              job.transcriptResults.utterances[i] = "Clinician"

\* Two utterances of speaker 1, stored while the job goes on.
C17_Witness ==
    /\ HasJob
    /\ rawUtterances = <<1, 1>>
    /\ job.transcriptResults.utterances = <<"Clinician", "Clinician">>
    /\ pc = "wave"

\* C18: when the classification call fails for a transcript of two or more
\* speakers, the speaker of the first utterance gets the role 'Clinician'
\* and every other speaker gets 'Patient'.
C18_FallbackIsFirstToSpeak ==
    (HasJob /\ "classification" \in failures) =>
        \A i \in DOMAIN rawUtterances :
            job.transcriptResults.utterances[i] =
                IF rawUtterances[i] = rawUtterances[1] THEN "Clinician" ELSE "Patient"

C20_EvaluatorAlwaysScores ==
    scoringPc \in {"evaluating", "returned", "thrown"} =>
        /\ \A d \in Domains :
              domainEvals[d] # PendingEval =>
                  /\ domainEvals[d] # NullEval
                  /\ domainEvals[d].score \in 0..10
        /\ (audioOutcome # "no_parsed") => scoringPc # "thrown"

\* C21: in the report, total_score is the sum of the four domain scores
\* (0..40), percentage is total_score / 40 * 100 (0..100) and grade is
\* 'honors' from 90, 'high_pass' from 80, 'pass' from 70 and 'fail' below.
C21_TotalPercentageGrade ==
    scoringPc = "returned" =>
        LET total == sessionReport.total_score
            pct == sessionReport.percentage
        IN /\ \A d \in Domains : sessionReport.domains[d].score \in 0..10
           /\ total = sessionReport.domains["communication_skills"].score
                        + sessionReport.domains["patient_education"].score
                        + sessionReport.domains["professionalism"].score
                        + sessionReport.domains["safety"].score
           /\ total \in 0..40
           /\ pct.num * 40 = total * 100 * pct.den
           /\ pct.num >= 0 /\ pct.num <= 100 * pct.den
           /\ sessionReport.grade =
                 (IF total * 100 >= 90 * 40 THEN "honors"
                  ELSE IF total * 100 >= 80 * 40 THEN "high_pass"
                  ELSE IF total * 100 >= 70 * 40 THEN "pass"
                  ELSE "fail")

\* A total of 36 of 40 is exactly 90 percent.
C21_Witness ==
    /\ scoringPc = "returned"
    /\ sessionReport.total_score = 36
    /\ sessionReport.percentage = Whole(90)
    /\ sessionReport.grade = "honors"

\* C22: if the audio extraction fails or the transcription rejects, the job
\* is in the error state with an error message and a null finalResults, and
\* its stage stays the one of the failed step: video_analysis,
\* behavioral_scoring and complete are never entered.
C22_EarlyFailureIsFatal ==
    (HasJob /\ failures \cap {"audio_extraction", "transcription"} # {}) =>
        /\ job.status = "error"
        /\ job.error # Null
        /\ job.finalResults = Null
        /\ job.stage \in {"audio_extraction", "transcription"}
        /\ \A f \in failures : job.stage = f
        /\ pc = "failed"

\* The transcription has rejected and the client has posted results since.
C22_Witness ==
    /\ HasJob
    /\ failures = {"transcription"}
    /\ job.status = "error"
    /\ job.stage = "transcription"
    /\ job.progress = Whole(80)

\* C23: a job whose report is computed ends with status 'complete', progress
\* 100, the report in finalResults and a null error even when saving the
\* session throws. Stated for the jobs whose pipeline has ended with every
\* step before the save having succeeded, whatever the session store does.
C23_CompleteWhenSaveThrows ==
    (HasJob /\ pc = "failed" /\ failures = {}) =>
        /\ job.status = "complete"
        /\ job.stage = "complete"
        /\ job.progress = Whole(100)
        /\ job.finalResults # Null
        /\ job.error = Null

\* C24: the stage of a job starts at audio_extraction and only moves one
\* step forward along audio_extraction, transcription, video_analysis,
\* behavioral_scoring, complete, while the job is processing; once the
\* status is 'complete' or 'error' neither the status nor the stage changes.
C24_StageOnlyForward ==
    [][/\ (~HasJob /\ HasJob') => job'.stage = "audio_extraction"
       /\ (HasJob /\ HasJob') =>
            /\ \/ job'.stage = job.stage
               \/ /\ job.status = "processing"
                  /\ <<job.stage, job'.stage>> \in
                        { <<"audio_extraction", "transcription">>,
                          <<"transcription", "video_analysis">>,
                          <<"video_analysis", "behavioral_scoring">>,
                          <<"behavioral_scoring", "complete">> }
            /\ job.status \in {"complete", "error"} =>
                  /\ job'.status = job.status
                  /\ job'.stage = job.stage]_vars

\* A job that went through three stages, failed there and was then posted
\* client results.
C24_Witness ==
    /\ HasJob
    /\ job.stage = "video_analysis"
    /\ job.status = "error"
    /\ job.overshootResults = <<[frameNumber |-> 1, timeInVideo |-> 1]>>
    /\ visionCalls > 0

\* C27: after a job has completed successfully for a source video, the
\* table analysis_cache holds an entry with its report for the video's key.
\* Stated for the jobs whose pipeline has ended with every step having
\* succeeded.
C27_ReportCachedAfterSuccess ==
    (HasJob /\ pc = "failed" /\ failures = {}) => analysisCache # {}

\* C29: after a job has finished processing, with status 'complete' or with
\* status 'error', its video file, its audio file and its frames directory
\* are eventually deleted.
C29_FilesEventuallyDeleted ==
    (HasJob /\ job.status \in {"complete", "error"}) ~> (jobFiles = {})

\* The calls of saveSession for an id since the id was last deleted.
SavesOf(sessionId) ==
    LET deletes == {k \in DOMAIN sessionLog :
                        sessionLog[k].op = "delete" /\ sessionLog[k].id = sessionId}
    IN {k \in DOMAIN sessionLog :
            /\ sessionLog[k].op = "save"
            /\ sessionLog[k].id = sessionId
            /\ \A d \in deletes : d < k}

\* C28: after saveSession has been called one or more times with an id, the
\* table holds exactly one row for the id, with the created_at of the first
\* of these saves and the data (as JSON) of the last; so a save repeated
\* with the same data leaves the stored report as the first left it. An id
\* never saved, or deleted since, has no row.
C28_SaveIsIdempotentOverwrite ==
    \A sessionId \in SessionIds :
        LET saves == SavesOf(sessionId)
            rows == SessionRows(sessions, sessionId)
        IN IF saves = {}
           THEN rows = {}
           ELSE LET first == CHOOSE k \in saves : \A j \in saves : k <= j
                    last == CHOOSE k \in saves : \A j \in saves : j <= k
                IN /\ Cardinality(rows) = 1
                   /\ \A r \in rows :
                        /\ r.created_at = sessionLog[first].at
                        /\ r.session_data = JSONStringify(sessionLog[last].data)
                        /\ getSession(sessions, sessionId) =
                                JSONParse(JSONStringify(sessionLog[last].data))

\* An id saved twice with different data at different times, and once more
\* with the data of the second save.
C28_Witness ==
    /\ Len(sessionLog) = 3
    /\ \A k \in 1..3 : sessionLog[k].op = "save" /\ sessionLog[k].id = "job-1"
    /\ sessionLog[1].data # sessionLog[2].data
    /\ sessionLog[2].data = sessionLog[3].data
    /\ sessionLog[1].at < sessionLog[2].at
    /\ sessionLog[2].at < sessionLog[3].at
    /\ sessionLog[2].data.osceEvaluation.patient_speaking_pct = "NaN"

\* C30: the waves of vision requests are strictly sequential. While the
\* waves run, every request in flight belongs to the current wave and no
\* request of a later wave has been issued; a step that issues requests is
\* the one in which the last request of the wave before settles; and the
\* pipeline writes the job's partial results and progress in that step and
\* in no other step of the wave, so once per wave.
C30_WavesStrictlySequential ==
    [][/\ pc' = "wave" =>
            /\ InFlightGroups' \subseteq BatchGroups(frameFiles', batchIndex')
            /\ visionCalls' <= Min((batchIndex' + 1) * BATCH_SIZE, NumGroups(frameFiles'))
       /\ (pc = "wave" /\ visionCalls' > visionCalls) =>
            /\ Cardinality(InFlightGroups) = 1
            /\ batchIndex' = batchIndex + 1
            /\ \A g \in 1..visionCalls : g \notin InFlightGroups'
       /\ (pc = "wave" /\ reqState' # reqState) =>
            IF Cardinality(InFlightGroups) > 1
            THEN /\ job' = job
                 /\ overshootResults' = overshootResults
                 /\ batchIndex' = batchIndex
            ELSE /\ job'.overshootResults = overshootResults'
                 /\ job'.progress = WaveProgress(overshootResults', frameFiles)
                 /\ Len(overshootResults') >= Len(overshootResults)
      ]_vars

\* The second wave is in flight after a first wave of BATCH_SIZE requests of
\* which one failed, and the job holds the results of the first wave.
C30_Witness ==
    /\ pc = "wave"
    /\ batchIndex = 1
    /\ InFlightGroups # {}
    /\ visionCalls = BATCH_SIZE + 1
    /\ droppedRequests = 1
    /\ job.overshootResults = overshootResults
    /\ Len(overshootResults) = (BATCH_SIZE - 1) * IMAGES_PER_REQUEST

\* C32: every vision observation carries the time of the frame it describes:
\* for the k-th extracted frame, sampled at f frames per second, timeInVideo
\* is (k - 1) / f seconds.
C32_ObservationTimeIsFrameTime ==
    \A i \in DOMAIN overshootResults :
        overshootResults[i].timeInVideo * samplingFps.num =
            (overshootResults[i].frameNumber - 1) * samplingFps.den

\* C33: in every event list returned by extractEventsFromAnalysis, two
\* events of the same type have the same severity, and every severity is
\* positive, neutral or warning.
C33_SeverityIsFunctionOfType ==
    \A r \in DOMAIN fusionRuns :
        \A i, j \in DOMAIN fusionRuns[r] :
            /\ fusionRuns[r][i].severity \in {"positive", "neutral", "warning"}
            /\ fusionRuns[r][i].type = fusionRuns[r][j].type
                    => fusionRuns[r][i].severity = fusionRuns[r][j].severity

\* A returned list with two events of one type at different times and with
\* events of the three severities.
C33_Witness ==
    /\ Len(fusionRuns) >= 1
    /\ \E i, j \in DOMAIN fusionRuns[1] :
        /\ i # j
        /\ fusionRuns[1][i].type = fusionRuns[1][j].type
        /\ fusionRuns[1][i].severity = "positive"
    /\ {fusionRuns[1][i].severity : i \in DOMAIN fusionRuns[1]}
            = {"positive", "neutral", "warning"}

\* C34: in every reachable state of a job its progress is an integer in
\* the range 0..100.
C34_ProgressIsIntegerPercent ==
    HasJob =>
        /\ job.progress.den = 1
        /\ job.progress.num \in 0..100

\* C35: callOpenAIWithRetry always ends, after at most maxRetries + 1 calls
\* of apiCall; it ends by returning the value of a call that resolved or by
\* throwing the error of a call that rejected, never by returning undefined
\* past the loop.
C35_RetryTerminatesWithResultOrError ==
    /\ [](/\ apiCalls <= maxRetries + 1
          /\ retryPc # "returned_undefined"
          /\ retryPc = "returned" => apiOutcome = "resolved"
          /\ retryPc = "thrown" => apiOutcome = "rejected")
    /\ <>(retryPc \in {"returned", "thrown"})

\* The call has thrown after maxRetries + 1 rate-limited calls.
C35_Witness ==
    /\ retryPc = "thrown"
    /\ apiCalls = maxRetries + 1
    /\ Len(retries) = maxRetries

\* C39: the step in which processVideoFull fails sets the job's status to
\* 'error' and its error to the message and changes nothing else: stage,
\* transcriptResults and finalResults keep their values, overshootResults
\* and progress are those the pipeline had written by the moment of the
\* failure (those of the last wave when the failure follows it at once),
\* and the job stays in the registry from then on.
C39_ErrorHandlingChangesStatusAndErrorOnly ==
    [][/\ (HasJob /\ job.status # "error" /\ job'.status = "error") =>
            /\ job'.error # Null
            /\ job'.stage = job.stage
            /\ job'.transcriptResults = job.transcriptResults
            /\ job'.finalResults = job.finalResults
            /\ IF pc = "wave"
               THEN /\ job'.overshootResults = overshootResults'
                    /\ job'.progress = WaveProgress(overshootResults', frameFiles)
               ELSE /\ job'.overshootResults = job.overshootResults
                    /\ job'.progress = job.progress
       /\ HasJob => HasJob'
      ]_vars

\* A job that failed after its vision wave: the stage, the transcript, the
\* observations and the progress of the wave are still in the record.
C39_Witness ==
    /\ HasJob
    /\ pc = "failed"
    /\ job.status = "error"
    /\ job.error = AssignToConst
    /\ job.stage = "video_analysis"
    /\ Len(job.overshootResults) = 4
    /\ job.overshootResults = overshootResults
    /\ job.progress = Whole(80)

\* C38: the safety timer of a run affects that run only. When the timer of
\* a run that has ended fires while a later run's job is still processing,
\* isProcessing and the view are left alone; and whenever the store is back
\* at the upload view with isProcessing false, no run is still polling.
C38_SafetyTimeoutAffectsOwnRunOnly ==
    [][/\ \A r, q \in Runs :
            (/\ r < q
             /\ runs[r].phase = "ended"
             /\ runs[r].safetyTimer = "armed"
             /\ runs'[r].safetyTimer = "fired"
             /\ runs[q].phase = "polling"
             /\ runs[q].status = "processing")
                => /\ isProcessing' = isProcessing
                   /\ currentView' = currentView
       /\ (currentView' = "upload" /\ ~isProcessing') =>
            \A q \in Runs : ~runs'[q].pollInterval
      ]_vars


====
